---- MODULE Spec2Model ----
(***************************************************************************)
(* Model of analysis_tiktok.py: the feature pipeline (preprocess_data),    *)
(* training (train_and_evaluate), single and bulk inference                *)
(* (predict_content, predict_bulk) and the Streamlit script main(), whose  *)
(* every run is one user interaction against st.session_state.             *)
(*                                                                         *)
(* Strings are sequences of one-character strings over Alphabet.  A        *)
(* missing string cell (NaN in pandas) is the one-element sequence NA,     *)
(* whose element is not a character of Alphabet.  A missing number is the  *)
(* integer NaN, which lies outside every range used here.                  *)
(***************************************************************************)
EXTENDS Integers, Sequences, FiniteSets, TLC

\* ------------------------------------------------------------------ bounds
MaxRows == 2
MaxFits == 2

\* ------------------------------------------------------- program constants
PopularThreshold == 10000
max_features == 100
test_size_pct == 20

\* ------------------------------------------------------------ value domains
WordChars == {"a", "b"}
Alphabet == WordChars \cup {"#", " "}
NA == <<"NaN">>
NaN == 0 - 1000000

\* code points of the characters, for the ordering numpy/python use on strings
Ord(c) == CASE c = " " -> 32 [] c = "#" -> 35 [] c = "a" -> 97
            [] c = "b" -> 98 [] c = "n" -> 110 [] OTHER -> 0

Min2(a, b) == IF a <= b THEN a ELSE b

\* s < t in python's string order (code point by code point, a prefix first)
LexLess(s, t) ==
  \E i \in 1..(Min2(Len(s), Len(t)) + 1) :
     /\ \A j \in 1..(i - 1) : s[j] = t[j]
     /\ \/ i > Len(s) /\ i <= Len(t)
        \/ i <= Len(s) /\ i <= Len(t) /\ Ord(s[i]) < Ord(t[i])

RECURSIVE SortedSeq(_)
\* the elements of a set of strings, as an ascending sequence (np.unique / sorted)
SortedSeq(S) ==
  IF S = {} THEN << >>
  ELSE LET m == CHOOSE x \in S : \A y \in S \ {x} : LexLess(x, y)
       IN  <<m>> \o SortedSeq(S \ {m})

IndexOf(seq, x) == CHOOSE i \in 1..Len(seq) : seq[i] = x

Range(seq) == {seq[i] : i \in 1..Len(seq)}

RECURSIVE Concat(_)
Concat(seqs) == IF seqs = << >> THEN << >> ELSE Head(seqs) \o Concat(Tail(seqs))

\* ---------------------------------------------------------- text features
\* end of the maximal run of word characters that starts at position i
RECURSIVE RunEnd(_, _)
RunEnd(s, i) == IF i + 1 <= Len(s) /\ s[i + 1] \in WordChars THEN RunEnd(s, i + 1) ELSE i

\* re.findall(r"#\w+", s), scanning from position i
RECURSIVE FindHashtags(_, _)
FindHashtags(s, i) ==
  IF i > Len(s) THEN << >>
  ELSE IF s[i] = "#" /\ i + 1 <= Len(s) /\ s[i + 1] \in WordChars
       THEN LET e == RunEnd(s, i + 1)
            IN  <<SubSeq(s, i, e)>> \o FindHashtags(s, e + 1)
       ELSE FindHashtags(s, i + 1)

RECURSIVE Join(_)
\* ' '.join(parts)
Join(parts) ==
  IF parts = << >> THEN << >>
  ELSE IF Len(parts) = 1 THEN parts[1]
  ELSE parts[1] \o <<" ">> \o Join(Tail(parts))

\* lambda x: ' '.join(re.findall(r"#\w+", str(x)))
hashtags_str(text) == Join(FindHashtags(text, 1))

\* TfidfVectorizer's analyzer: token_pattern (?u)\b\w\w+\b, i.e. the maximal
\* runs of word characters that are at least two characters long
RECURSIVE Tokenize(_, _)
Tokenize(s, i) ==
  IF i > Len(s) THEN << >>
  ELSE IF s[i] \in WordChars
       THEN LET e == RunEnd(s, i)
            IN  (IF e > i THEN <<SubSeq(s, i, e)>> ELSE << >>) \o Tokenize(s, e + 1)
       ELSE Tokenize(s, i + 1)

Count(seq, x) == Cardinality({i \in 1..Len(seq) : seq[i] = x})

RECURSIVE Gcd(_, _)
Gcd(a, b) == IF b = 0 THEN a ELSE Gcd(b, a % b)

RECURSIVE GcdSeq(_)
GcdSeq(v) == IF v = << >> THEN 0 ELSE Gcd(Head(v), GcdSeq(Tail(v)))

\* A tf-idf row is the term counts, scaled column-wise by the positive idf
\* weights and then to unit length: two documents get the same row exactly
\* when their count vectors are proportional.  The row is kept as the count
\* vector divided by its gcd, which is equal exactly when the tf-idf rows are.
Direction(v) == LET g == GcdSeq(v) IN IF g = 0 THEN v ELSE [i \in 1..Len(v) |-> v[i] \div g]

\* the terms of a corpus and, above max_features, the most frequent of them
Terms(docs) == UNION {Range(Tokenize(docs[i], 1)) : i \in 1..Len(docs)}

TermFreq(docs, t) == Count(Concat([i \in 1..Len(docs) |-> Tokenize(docs[i], 1)]), t)

LimitFeatures(docs, terms) ==
  IF Cardinality(terms) <= max_features THEN terms
  ELSE CHOOSE K \in SUBSET terms :
         /\ Cardinality(K) = max_features
         /\ \A k \in K : \A o \in terms \ K : TermFreq(docs, k) >= TermFreq(docs, o)

\* TfidfVectorizer(max_features=100).fit: the fitted vocabulary, in column order
tfidf_fit(docs) == SortedSeq(LimitFeatures(docs, Terms(docs)))

\* tfidf.transform([doc]): one row, one column per vocabulary term
tfidf_transform(vocab, doc) ==
  Direction([i \in 1..Len(vocab) |-> Count(Tokenize(doc, 1), vocab[i])])

\* ------------------------------------------------------ categorical encoder
\* LabelEncoder().fit(values).classes_ : sorted, deduplicated
le_fit(values) == SortedSeq(Range(values))

\* LabelEncoder.transform raises ValueError on a label it was not fitted on; the
\* exception is carried as this value, which is no code
UnseenLabelError == 0 - 2

\* LabelEncoder.transform([v])[0]: the position of v in classes_, from 0
le_transform(classes, v) ==
  IF v \in Range(classes) THEN IndexOf(classes, v) - 1 ELSE UnseenLabelError

\* the encoder after a fit_transform on the value instead of a transform
EncoderAfterFitTransform(le, v) == [le EXCEPT !.classes_ = <<v>>]

\* LabelEncoder.transform and the membership test read classes_ and leave the
\* encoder as it was
EncoderAfterTransform(le, v) == le

\* str(x) of a cell: a missing cell prints as 'nan'
Str(x) == IF x = NA THEN <<"n", "a", "n">> ELSE x

\* the encoding without the membership test
encode_unguarded(classes, x) == le_transform(classes, Str(x))

\* le.transform([str(x)])[0] if str(x) in le.classes_ else -1
encode_or_unseen(classes, x) ==
  IF Str(x) \in Range(classes) THEN le_transform(classes, Str(x)) ELSE 0 - 1

\* ------------------------------------------------------------- table cells
\* a createTimeISO cell: a parsable timestamp, an unparsable string, or missing
Ts(h, m, sec, d) == [kind |-> "ts", hour |-> h, minute |-> m, second |-> sec, dayofweek |-> d]
BadTs == [kind |-> "bad", hour |-> NaN, minute |-> NaN, second |-> NaN, dayofweek |-> NaN]
MissingTs == [kind |-> "na", hour |-> NaN, minute |-> NaN, second |-> NaN, dayofweek |-> NaN]

T1 == Ts(12, 1, 0, 0)
T2 == Ts(23, 59, 58, 6)

Txt_hash_ab == <<"#", "a", "b">>
Txt_hash_ba == <<"#", "b", "a">>
Txt_ab == <<"a", "b">>
Txt_ab_hash_ba == <<"a", "b", " ", "#", "b", "a">>

Row(t, a, m, d, ts, c) ==
  [text |-> t, authorMeta_name |-> a, musicMeta_musicName |-> m,
   videoMeta_duration |-> d, createTimeISO |-> ts,
   diggCount |-> c[1], shareCount |-> c[2], commentCount |-> c[3], playCount |-> c[4]]

\* rows of data/tiktok_scrapper.csv the datasets are built from
SampleRows ==
  { Row(Txt_hash_ab, <<"a">>, <<"b">>, 5, T1, <<3000, 2000, 1000, 4000>>),
    Row(Txt_hash_ba, <<"a", "b">>, <<"a">>, 7, T2, <<3000, 2000, 1000, 4001>>),
    Row(Txt_ab_hash_ba, <<"b">>, <<"b">>, 5, T1, <<0, 0, 0, 0>>),
    Row(Txt_hash_ab, <<"a">>, <<"a">>, 5, BadTs, <<3000, 2000, 1000, 4001>>),
    Row(Txt_hash_ba, NA, <<"b">>, 5, T1, <<0, 0, 0, 0>>) }

SeqsUpTo(S, lo, hi) == UNION {[1..n -> S] : n \in lo..hi}

\* engagement counters around the threshold, for one-row datasets
CounterValues == {0, 1, 2500, 4999, 5000, 5001, 10000, 10001}
CounterRows ==
  { Row(Txt_hash_ab, <<"a">>, <<"b">>, 5, T1, <<l, s, c, p>>) :
      l \in CounterValues, s \in {0, 5000}, c \in {0, 1}, p \in CounterValues }

Datasets == SeqsUpTo(SampleRows, 0, MaxRows) \cup {<<r>> : r \in CounterRows}

\* --------------------------------------------------------- preprocess_data
\* a row dropna() removes: any cell of it is missing
HasMissing(r) ==
  \/ r.text = NA \/ r.authorMeta_name = NA \/ r.musicMeta_musicName = NA
  \/ r.videoMeta_duration = NaN \/ r.createTimeISO.kind = "na"
  \/ r.diggCount = NaN \/ r.shareCount = NaN \/ r.commentCount = NaN \/ r.playCount = NaN

dropna(df) == SelectSeq(df, LAMBDA r : ~HasMissing(r))

total_interactions(r) == r.diggCount + r.shareCount + r.commentCount + r.playCount

\* the label with the tie counted as popular
is_popular_ge(r) == IF total_interactions(r) >= PopularThreshold THEN 1 ELSE 0

is_popular(r) == IF total_interactions(r) > PopularThreshold THEN 1 ELSE 0

\* the dense block of a training row, in the column order of the hstack
TrainDense(r, le_name, le_music) ==
  << le_transform(le_name, r.authorMeta_name), le_transform(le_music, r.musicMeta_musicName),
     r.videoMeta_duration, r.createTimeISO.hour, r.createTimeISO.minute,
     r.createTimeISO.second, Len(r.text) >>

PreError(e) ==
  [ok |-> FALSE, error |-> e, df |-> << >>, features |-> << >>, y |-> << >>,
   tfidf |-> << >>, le_name |-> << >>, le_music |-> << >>]

preprocess_data(df0) ==
  LET df       == dropna(df0)
      le_name  == le_fit([i \in 1..Len(df) |-> df[i].authorMeta_name])
      le_music == le_fit([i \in 1..Len(df) |-> df[i].musicMeta_musicName])
      docs     == [i \in 1..Len(df) |-> hashtags_str(df[i].text)]
      tfidf    == tfidf_fit(docs)
  IN  IF tfidf = << >> THEN PreError("ValueError: empty vocabulary")
      ELSE IF \E i \in 1..Len(df) : df[i].createTimeISO.kind = "bad"
           THEN PreError("ValueError: unparsable timestamp")
      ELSE [ok |-> TRUE, error |-> "",
            df |-> df,
            features |-> [i \in 1..Len(df) |->
                            tfidf_transform(tfidf, docs[i]) \o TrainDense(df[i], le_name, le_music)],
            y |-> [i \in 1..Len(df) |-> is_popular(df[i])],
            tfidf |-> tfidf, le_name |-> le_name, le_music |-> le_music]

\* ------------------------------------------------------ train_and_evaluate
Ceil(num, den) == (num + den - 1) \div den

\* train_test_split(X, y, test_size=0.2, stratify=y) raises ValueError when a
\* class has a single member or a partition is smaller than the number of classes
CanStratify(y) ==
  LET n       == Len(y)
      classes == Range(y)
      n_test  == Ceil(n * test_size_pct, 100)
      n_train == n - n_test
  IN  /\ n_train > 0
      /\ \A c \in classes : Count(y, c) >= 2
      /\ n_train >= Cardinality(classes)
      /\ n_test >= Cardinality(classes)

\* what can go wrong after the split: the fit or the evaluation raising, or the
\* script run being stopped at one of the st.* calls of the report
Faults == {"none", "fit raised", "report raised", "run stopped"}

\* fit: the id of the run that made the object, as its identity; classes_: the
\* labels the forest saw (the stratified training part holds every class of y)
train_and_evaluate(X, y, fault, fit) ==
  IF ~CanStratify(y) THEN [ok |-> FALSE, error |-> "ValueError: cannot stratify", model |-> << >>]
  ELSE IF fault # "none" THEN [ok |-> FALSE, error |-> fault, model |-> << >>]
  ELSE [ok |-> TRUE, error |-> "", model |-> [fit |-> fit, n_features_in |-> Len(X[1]), classes_ |-> Range(y)]]

\* model.predict(features): input validation, then one label per row; votes are
\* the labels the forest gives, a function of its fitted state that is left open
model_predict(model, features, votes) ==
  IF \E i \in 1..Len(features) : Len(features[i]) # model.n_features_in
  THEN [ok |-> FALSE, error |-> "ValueError: number of features", labels |-> << >>]
  ELSE IF \E i \in 1..Len(features) : \E j \in 1..Len(features[i]) : features[i][j] = NaN
  THEN [ok |-> FALSE, error |-> "ValueError: Input contains NaN", labels |-> << >>]
  ELSE [ok |-> TRUE, error |-> "", labels |-> [i \in 1..Len(features) |-> votes[i]]]

\* ----------------------------------------------------------- predict_content
\* the text handed to tfidf.transform for one record
ContentDoc(text) == text

\* the result of an inference call, and st.session_state as the call leaves it
Inferred(ok, error, features, result, called, ss) ==
  [ok |-> ok, error |-> error, features |-> features, result |-> result,
   predict_called |-> called, ss |-> ss]

RaisedInEncoding(codes) == UnseenLabelError \in Range(codes)

predict_content(ss, model, tfidf, text, author, music, duration, waktu, votes) ==
  LET text_length    == Len(text)
      author_encoded == encode_or_unseen(ss["le_name"].classes_, author)
      music_encoded  == encode_or_unseen(ss["le_music"].classes_, music)
      ss1            == [ss EXCEPT !["le_name"] = EncoderAfterTransform(@, author),
                                   !["le_music"] = EncoderAfterTransform(@, music)]
      features       == << tfidf_transform(tfidf.vocabulary, ContentDoc(text)) \o
                           << author_encoded, music_encoded, duration,
                              waktu.hour, waktu.minute, waktu.second, text_length >> >>
      p              == model_predict(model, features, votes)
  IN  IF RaisedInEncoding(<<author_encoded, music_encoded>>)
      THEN Inferred(FALSE, "ValueError: unseen labels", << >>, << >>, FALSE, ss1)
      ELSE Inferred(p.ok, p.error, features, IF p.ok THEN <<p.labels[1]>> ELSE << >>, TRUE, ss1)

\* -------------------------------------------------------------- predict_bulk
\* pd.to_datetime(errors='coerce') followed by .dt.hour/.minute/.second:
\* an unparsable or missing timestamp becomes NaT, whose parts are NaN
CoerceTs(ts) == IF ts.kind = "ts" THEN ts ELSE MissingTs

\* df_input['text'].fillna('').astype(str)
BulkText(r) == IF r.text = NA THEN << >> ELSE r.text

\* the text handed to tfidf.transform for a row of the batch
BulkDoc(r) == BulkText(r)

\* the dense block of a batch row with text_length ahead of the time columns
BulkDense_reordered(r, ss) ==
  << encode_or_unseen(ss["le_name"].classes_, r.authorMeta_name),
     encode_or_unseen(ss["le_music"].classes_, r.musicMeta_musicName),
     r.videoMeta_duration, Len(BulkText(r)),
     CoerceTs(r.createTimeISO).hour, CoerceTs(r.createTimeISO).minute,
     CoerceTs(r.createTimeISO).second >>

\* the dense block of a batch row, in the column order of the hstack
BulkDense(r, ss) ==
  << encode_or_unseen(ss["le_name"].classes_, r.authorMeta_name),
     encode_or_unseen(ss["le_music"].classes_, r.musicMeta_musicName),
     r.videoMeta_duration,
     CoerceTs(r.createTimeISO).hour, CoerceTs(r.createTimeISO).minute,
     CoerceTs(r.createTimeISO).second, Len(BulkText(r)) >>

StatusLabel(l) == IF l = 1 THEN "Populer" ELSE "Tidak Populer"

RECURSIVE EncodersAfterBulk(_, _, _)
\* the encoders after the row-wise apply over rows i.. of the batch
EncodersAfterBulk(ss, df_input, i) ==
  IF i > Len(df_input) THEN ss
  ELSE EncodersAfterBulk(
         [ss EXCEPT !["le_name"] = EncoderAfterTransform(@, Str(df_input[i].authorMeta_name)),
                    !["le_music"] = EncoderAfterTransform(@, Str(df_input[i].musicMeta_musicName))],
         df_input, i + 1)

predict_bulk(ss, model, tfidf, df_input, votes) ==
  LET features == [i \in 1..Len(df_input) |->
                     tfidf_transform(tfidf.vocabulary, BulkDoc(df_input[i])) \o
                     BulkDense(df_input[i], ss)]
      ss1      == EncodersAfterBulk(ss, df_input, 1)
      p        == model_predict(model, features, votes)
  IN  IF \E i \in 1..Len(features) : RaisedInEncoding(features[i])
      THEN Inferred(FALSE, "ValueError: unseen labels", << >>, << >>, FALSE, ss1)
      ELSE Inferred(p.ok, p.error, features,
                    IF p.ok
                    THEN [i \in 1..Len(df_input) |->
                            [row |-> df_input[i],
                             status_popularitas |-> StatusLabel(p.labels[i])]]
                    ELSE << >>,
                    TRUE, ss1)

\* ------------------------------------------------------- inference inputs
InRow(t, a, m, d, ts) ==
  [text |-> t, authorMeta_name |-> a, musicMeta_musicName |-> m,
   videoMeta_duration |-> d, createTimeISO |-> ts]

\* rows of an uploaded CSV
UploadRows ==
  { InRow(NA, NA, <<"a">>, 7, T2),
    InRow(Txt_ab_hash_ba, <<"b", "b">>, <<"b">>, 5, BadTs) }

\* rows of the manual form: text inputs are strings, the time widget always
\* yields a time of day
ManualRows ==
  { InRow(Txt_hash_ab, <<"b">>, <<"b">>, 5, T1),
    InRow(Txt_ab, <<"a", "b">>, <<"b", "b">>, 1, T2) }

SingleInputs ==
  [text : {<< >>, Txt_ab, Txt_hash_ab, Txt_ab_hash_ba},
   author : {<<"a">>, <<"b">>, <<"b", "b">>},
   music : {<<"b", "b">>},
   duration : {5},
   waktu : {T1}]

\* what a fitted forest may answer for k rows: labels it saw in training
Votes(model, k) == [1..k -> model.classes_]

\* ------------------------------------------------------------------ state
VARIABLES
  csv,            \* the rows of data/tiktok_scrapper.csv
  session_state,  \* st.session_state: a dictionary, some keys may be absent
  nfit,           \* number of script runs that entered training so far
  out             \* what the last script run did and showed

vars == <<csv, session_state, nfit, out>>

ArtifactKeys == {"model", "le_name", "le_music", "tfidf"}

NoPre == PreError("")

Out(view, error, pre, req, input, features, result, called) ==
  [view |-> view, error |-> error, pre |-> pre, req |-> req, input |-> input,
   features |-> features, result |-> result, predict_called |-> called]

Init ==
  /\ csv \in Datasets
  /\ session_state = << >>
  /\ nfit = 0
  /\ out = Out("none", "", NoPre, "none", << >>, << >>, << >>, FALSE)

\* lines 162-171: the sidebar buttons and the default section
SectionAfter(ss, click) ==
  LET ss1 == IF click # "none" THEN ("section" :> click) @@ ss ELSE ss
  IN  IF "section" \notin DOMAIN ss1 THEN ("section" :> "EDA") @@ ss1 ELSE ss1

\* lines 245-251: the four stores of the Model section, after a training that returned
StoreArtifacts(ss, model, pre, fit) ==
  ("model" :> model) @@
  ("le_name" :> [fit |-> fit, classes_ |-> pre.le_name]) @@
  ("le_music" :> [fit |-> fit, classes_ |-> pre.le_music]) @@
  ("tfidf" :> [fit |-> fit, vocabulary |-> pre.tfidf]) @@ ss

\* the Model section with the encoders and the vectorizer stored ahead of the training
ModelSection_early(ss, pre, fault, fit) ==
  LET t     == train_and_evaluate(pre.features, pre.y, fault, fit)
      early == ("le_name" :> [fit |-> fit, classes_ |-> pre.le_name]) @@
               ("le_music" :> [fit |-> fit, classes_ |-> pre.le_music]) @@
               ("tfidf" :> [fit |-> fit, vocabulary |-> pre.tfidf]) @@ ss
  IN  IF t.ok THEN ("model" :> t.model) @@ early ELSE early

\* the Model section: train_and_evaluate, then the stores; an exception in the
\* training leaves the run before any store
ModelSection(ss, pre, fault, fit) ==
  LET t == train_and_evaluate(pre.features, pre.y, fault, fit)
  IN  IF t.ok THEN StoreArtifacts(ss, t.model, pre, fit) ELSE ss

\* the Prediksi section without its guard
ModelMissing_never(ss) == FALSE

\* line 261: the guard of the Prediksi section
ModelMissing(ss) == "model" \notin DOMAIN ss

\* one run of main(): click is the sidebar button pressed (or "none"), req the
\* inference widget that fired (or "none") with its input and the forest's votes
main(click, req, input, votes, fault) ==
  LET ss      == SectionAfter(session_state, click)
      section == ss["section"]
      pre     == preprocess_data(csv)
      fit     == nfit + 1
  IN  /\ section = "Model" => nfit < MaxFits
      /\ nfit' = IF section = "Model" THEN nfit + 1 ELSE nfit
      /\ IF csv = << >>
         THEN /\ session_state' = ss
              /\ out' = Out("no data", "", NoPre, "none", << >>, << >>, << >>, FALSE)
         ELSE IF ~pre.ok
         THEN /\ session_state' = ss
              /\ out' = Out("exception", pre.error, pre, "none", << >>, << >>, << >>, FALSE)
         ELSE IF section = "Model"
         THEN LET t == train_and_evaluate(pre.features, pre.y, fault, fit)
              IN  /\ session_state' = ModelSection(ss, pre, fault, fit)
                  /\ out' = Out(IF t.ok THEN "Model" ELSE "exception", t.error, pre,
                                "none", << >>, << >>, << >>, FALSE)
         ELSE IF section = "Prediksi"
         THEN IF ModelMissing(ss)
              THEN /\ session_state' = ss
                   /\ out' = Out("not fitted warning", "", pre, "none", << >>, << >>, << >>, FALSE)
              ELSE IF req = "single"
              THEN LET r == predict_content(ss, ss["model"], ss["tfidf"], input.text,
                                            input.author, input.music, input.duration,
                                            input.waktu, votes)
                   IN  /\ session_state' = r.ss
                       /\ out' = Out(IF r.ok THEN "Prediksi" ELSE "exception", r.error, pre,
                                     req, input, r.features, r.result, r.predict_called)
              ELSE IF req \in {"upload", "manual"}
              THEN LET r == predict_bulk(ss, ss["model"], ss["tfidf"], input, votes)
                   IN  /\ session_state' = r.ss
                       /\ out' = Out(IF r.ok THEN "Prediksi" ELSE "exception", r.error, pre,
                                     req, input, r.features, r.result, r.predict_called)
              ELSE /\ session_state' = ss
                   /\ out' = Out("Prediksi", "", pre, "none", << >>, << >>, << >>, FALSE)
         ELSE /\ session_state' = ss
              /\ out' = Out(section, "", pre, "none", << >>, << >>, << >>, FALSE)

\* the inference widgets exist on the page only when the last run rendered the
\* tabs of the Prediksi section (line 265 onwards)
TabsRendered ==
  /\ "section" \in DOMAIN session_state
  /\ session_state["section"] = "Prediksi"
  /\ \/ out.view = "Prediksi"
     \/ out.view = "exception" /\ out.req # "none"

\* ----------------------------------------------------------------- actions
\* the data file is not written by the program
ClickEDA ==
  /\ main("EDA", "none", << >>, << >>, "none")
  /\ UNCHANGED csv

ClickModel ==
  /\ \E fault \in Faults : main("Model", "none", << >>, << >>, fault)
  /\ UNCHANGED csv

ClickData ==
  /\ main("Data", "none", << >>, << >>, "none")
  /\ UNCHANGED csv

ClickPrediksi ==
  /\ main("Prediksi", "none", << >>, << >>, "none")
  /\ UNCHANGED csv

\* any other widget interaction: the script runs again in the current section
Rerun ==
  /\ \E fault \in Faults :
       /\ fault # "none" => "section" \in DOMAIN session_state /\ session_state["section"] = "Model"
       /\ main("none", "none", << >>, << >>, fault)
  /\ UNCHANGED csv

UjiSatu ==
  /\ TabsRendered
  /\ \E input \in SingleInputs, votes \in Votes(session_state["model"], 1) :
       main("none", "single", input, votes, "none")
  /\ UNCHANGED csv

UploadCsv ==
  /\ TabsRendered
  /\ \E input \in SeqsUpTo(UploadRows, 1, MaxRows) :
       \E votes \in Votes(session_state["model"], Len(input)) :
         main("none", "upload", input, votes, "none")
  /\ UNCHANGED csv

UjiManual ==
  /\ TabsRendered
  /\ \E input \in SeqsUpTo(ManualRows, 1, MaxRows) :
       \E votes \in Votes(session_state["model"], Len(input)) :
         main("none", "manual", input, votes, "none")
  /\ UNCHANGED csv

Next ==
  \/ ClickEDA
  \/ ClickModel
  \/ ClickData
  \/ ClickPrediksi
  \/ Rerun
  \/ UjiSatu
  \/ UploadCsv
  \/ UjiManual

Spec == Init /\ [][Next]_vars

\* ================================================================== claims
\* the last run got as far as preprocess_data (line 177)
PreprocessRan == out.view \notin {"none", "no data"}

Single == out.req = "single"

Bulk == out.req \in {"upload", "manual"}

\* the rows of the data file without a missing cell
CompleteRows == SelectSeq(csv, LAMBDA r : ~HasMissing(r))

\* place of v among the values an encoder was fitted on, counted from 0, and
\* -1 for a value that is not among them
CodeAmong(fitted, v) ==
  IF v \in fitted THEN Cardinality({c \in fitted : LexLess(c, v)}) ELSE 0 - 1

FittedAuthors == {CompleteRows[i].authorMeta_name : i \in 1..Len(CompleteRows)}

FittedMusic == {CompleteRows[i].musicMeta_musicName : i \in 1..Len(CompleteRows)}

\* width of the text block of the vectorizer held by the session
TextWidth == Len(session_state["tfidf"].vocabulary)

\* C1: the training label is 1 exactly when like + share + comment + play is
\* above 10000; a sum of exactly 10000 gives 0.
C1_ThresholdLabel ==
  (PreprocessRan /\ out.pre.ok) =>
    \A i \in 1..Len(out.pre.df) :
      LET r   == out.pre.df[i]
          sum == r.diggCount + r.shareCount + r.commentCount + r.playCount
      IN  /\ out.pre.y[i] \in {0, 1}
          /\ (out.pre.y[i] = 1) <=> (sum > 10000)
          /\ (sum = 10000) => (out.pre.y[i] = 0)

C1_Witness ==
  /\ PreprocessRan /\ out.pre.ok
  /\ \E i \in 1..Len(out.pre.df) :
       /\ total_interactions(out.pre.df[i]) = 10000
       /\ out.pre.df[i].playCount = 5000
       /\ out.pre.y[i] = 0

\* C2: an author or music string given to single or bulk inference is encoded
\* as its index in the sorted, deduplicated set the encoder was fitted on when
\* it is in that set and as -1 otherwise, and the encoding never raises.
C2_EncodeOrSentinel ==
  /\ Single =>
       /\ out.error # "ValueError: unseen labels"
       /\ out.features[1][TextWidth + 1] = CodeAmong(FittedAuthors, out.input.author)
       /\ out.features[1][TextWidth + 2] = CodeAmong(FittedMusic, out.input.music)
  /\ Bulk =>
       /\ out.error # "ValueError: unseen labels"
       /\ Len(out.features) = Len(out.input)
       /\ \A i \in 1..Len(out.input) :
            /\ out.features[i][TextWidth + 1] =
                 CodeAmong(FittedAuthors, Str(out.input[i].authorMeta_name))
            /\ out.features[i][TextWidth + 2] =
                 CodeAmong(FittedMusic, Str(out.input[i].musicMeta_musicName))

C2_Witness ==
  /\ Single
  /\ Cardinality(FittedAuthors) = 2
  /\ out.features[1][TextWidth + 1] = 1
  /\ out.features[1][TextWidth + 2] = 0 - 1

\* the seven dense columns, in the order the classifier is trained on
DenseColumns(author_code, music_code, duration, hour, minute, second, text_length) ==
  <<author_code, music_code, duration, hour, minute, second, text_length>>

\* C3: in training, single inference and bulk inference the feature row is the
\* text block followed by exactly the seven dense columns author_code,
\* music_code, duration, hour, minute, second, text_length, and its width at
\* inference is the width the classifier was fitted on.
C3_ColumnStability ==
  /\ (PreprocessRan /\ out.pre.ok) =>
       \A i \in 1..Len(out.pre.df) :
         LET r   == out.pre.df[i]
             row == out.pre.features[i]
             w   == Len(out.pre.tfidf)
         IN  /\ Len(row) = w + 7
             /\ SubSeq(row, w + 1, w + 7) =
                  DenseColumns(CodeAmong(FittedAuthors, r.authorMeta_name),
                               CodeAmong(FittedMusic, r.musicMeta_musicName),
                               r.videoMeta_duration, r.createTimeISO.hour,
                               r.createTimeISO.minute, r.createTimeISO.second, Len(r.text))
  /\ (PreprocessRan /\ out.view = "Model") =>
       session_state["model"].n_features_in = Len(out.pre.tfidf) + 7
  /\ Single =>
       LET row == out.features[1]
           x   == out.input
       IN  /\ Len(row) = session_state["model"].n_features_in
           /\ SubSeq(row, TextWidth + 1, TextWidth + 7) =
                DenseColumns(CodeAmong(FittedAuthors, x.author), CodeAmong(FittedMusic, x.music),
                             x.duration, x.waktu.hour, x.waktu.minute, x.waktu.second,
                             Len(x.text))
  /\ Bulk =>
       \A i \in 1..Len(out.input) :
         LET row == out.features[i]
             x   == out.input[i]
             ts  == x.createTimeISO
         IN  /\ Len(row) = session_state["model"].n_features_in
             /\ SubSeq(row, TextWidth + 1, TextWidth + 7) =
                  DenseColumns(CodeAmong(FittedAuthors, Str(x.authorMeta_name)),
                               CodeAmong(FittedMusic, Str(x.musicMeta_musicName)),
                               x.videoMeta_duration,
                               IF ts.kind = "ts" THEN ts.hour ELSE NaN,
                               IF ts.kind = "ts" THEN ts.minute ELSE NaN,
                               IF ts.kind = "ts" THEN ts.second ELSE NaN,
                               IF x.text = NA THEN 0 ELSE Len(x.text))

C3_Witness ==
  /\ Bulk
  /\ Len(out.input) = 2
  /\ TextWidth = 2
  /\ out.view = "Prediksi"
  /\ out.input[1].createTimeISO = T1
  /\ out.input[2].createTimeISO = T2

\* the fitted artifacts the session holds
Artifacts(ss) == [k \in ArtifactKeys \cap DOMAIN ss |-> ss[k]]

SectionIs(name) == "section" \in DOMAIN session_state /\ session_state["section"] = name

\* C4: while no training run has stored artifacts in the session, no run
\* produces a prediction or calls the classifier, and a run that reaches the
\* Prediksi section ends in the not-fitted outcome.
C4_NotFittedBeforeTraining ==
  ("model" \notin DOMAIN session_state) =>
    /\ ~out.predict_called
    /\ out.result = << >>
    /\ out.req = "none"
    /\ (SectionIs("Prediksi") /\ PreprocessRan /\ out.pre.ok) => out.view = "not fitted warning"

C4_Witness ==
  /\ "model" \notin DOMAIN session_state
  /\ SectionIs("Prediksi")
  /\ out.view = "not fitted warning"

\* the session holds no artifact, or all four, made by one training invocation
MatchedSet(ss) ==
  \/ DOMAIN ss \cap ArtifactKeys = {}
  \/ /\ ArtifactKeys \subseteq DOMAIN ss
     /\ \A k \in ArtifactKeys : ss[k].fit = ss["model"].fit

\* C5: the session always holds either no fitted artifact or all four from one
\* and the same successful training invocation, and a training invocation that
\* fails or is interrupted leaves the stored set as it was.
C5_AllOrNothing ==
  /\ [](MatchedSet(session_state) /\ ("model" \in DOMAIN session_state =>
                                        session_state["model"].fit \in 1..nfit))
  /\ [][(nfit' = nfit + 1 /\ out'.view # "Model") =>
          Artifacts(session_state') = Artifacts(session_state)]_vars

C5_Witness ==
  /\ SectionIs("Model")
  /\ out.view = "exception"
  /\ out.error = "fit raised"
  /\ "model" \in DOMAIN session_state
  /\ session_state["model"].fit = 1
  /\ nfit = 2

\* C7: a run that does single or bulk inference leaves the four fitted
\* artifacts of the session as they were; only a run of the Model section
\* changes them.
C7_InferenceFrame ==
  [][/\ out'.req # "none" => Artifacts(session_state') = Artifacts(session_state)
     /\ Artifacts(session_state') # Artifacts(session_state) =>
          (session_state'["section"] = "Model" /\ out'.view = "Model")]_vars

C7_Witness ==
  /\ Bulk
  /\ out.view = "Prediksi"
  /\ \E i \in 1..Len(out.input) :
       Str(out.input[i].authorMeta_name) \notin Range(session_state["le_name"].classes_)

\* C6: bulk inference on K rows returns exactly K rows, in input order, each
\* with one of the two display labels, also when a row's timestamp is unparsable.
C6_BulkRowCount ==
  Bulk =>
    /\ Len(out.result) = Len(out.input)
    /\ \A i \in 1..Len(out.result) :
         /\ out.result[i].row = out.input[i]
         /\ out.result[i].status_popularitas \in {"Populer", "Tidak Populer"}

\* C8: in bulk inference a row whose timestamp cannot be parsed is kept, with
\* hour, minute and second 0 in its feature row.
C8_ZeroFilledTime ==
  Bulk =>
    /\ Len(out.features) = Len(out.input)
    /\ \A i \in 1..Len(out.input) :
         out.input[i].createTimeISO.kind # "ts" =>
           SubSeq(out.features[i], TextWidth + 4, TextWidth + 6) = <<0, 0, 0>>

\* C9: the text block of an inference row is the vectorizer applied to the
\* hashtag_text of the record's text, as in training.
C9_HashtagTextAtInference ==
  /\ Single =>
       SubSeq(out.features[1], 1, TextWidth) =
         tfidf_transform(session_state["tfidf"].vocabulary, hashtags_str(out.input.text))
  /\ Bulk =>
       \A i \in 1..Len(out.features) :
         SubSeq(out.features[i], 1, TextWidth) =
           tfidf_transform(session_state["tfidf"].vocabulary,
                           hashtags_str(BulkText(out.input[i])))

\* a row with no missing value and a parsable timestamp
WellFormed(r) == ~HasMissing(r) /\ r.createTimeISO.kind = "ts"

\* C10: in training preprocessing a malformed row (missing value, unparsable
\* timestamp) is dropped on its own: the batch does not fail because of it and
\* the remaining rows are the ones encoded, labeled and assembled.
C10_MalformedRowsDropped ==
  PreprocessRan =>
    /\ out.pre.error # "ValueError: unparsable timestamp"
    /\ out.pre.ok =>
         /\ out.pre.df = SelectSeq(csv, WellFormed)
         /\ Len(out.pre.features) = Len(out.pre.df)
         /\ Len(out.pre.y) = Len(out.pre.df)
====
